---- MODULE Spec2Model ----
(***************************************************************************)
(* Model of the scan / execute pipeline of steamautomatic.                 *)
(*                                                                         *)
(*   Spec        CSQAQScanner (plugins/Scanner.py): the BindState machine  *)
(*               (check_state, _perform_bind, trigger_cooldown), the       *)
(*               legacy bind_local_ip, the three polling bursts            *)
(*               (get_rank_list, get_item_details, get_lease_stability)    *)
(*               and the control flow of run / run_scan around them.       *)
(*   SpecBatch   the same run(), one record of run_scan per step.          *)
(*   SpecInvest  UUAutoInvest.execute_investment (plugins/UUAutoInvest.py):*)
(*               the execution loop and its circuit breaker.               *)
(*   SpecGate    the price test of execute_investment on prices in cents.  *)
(*   SpecFilter  one pass of run_scan's loop, stage by stage, on a record  *)
(*               with its metrics: the filters and the tiering.            *)
(*   SpecHunt    one pass of the loop of ItemHunter.hunt                   *)
(*               (plugins/Hunter.py) with analyze_item.                    *)
(*   SpecSort    the sort of final_whitelist at the end of run_scan.       *)
(*   SpecDecide  the rent-or-sell decision of the lease plugin             *)
(*               (plugins/UUAutoLeaseItem.py) and of the sell plugin       *)
(*               (plugins/UUAutoSellItem.py) on the same holding.          *)
(*                                                                         *)
(* Time.  Sleeps are counted in tenths of a second (gap: what has been     *)
(* slept since the last outbound request).  The wall clock is counted in   *)
(* ticks of 5 seconds; a sleep advances it by its whole ticks and the      *)
(* action Elapse is a stall of more than a minute between two steps (a     *)
(* request hanging through its timeouts, a suspended process).             *)
(* The code reads time.time() only in the differences                      *)
(* cooldown_end_time - now and now - last_bind_time, so the state keeps    *)
(* these two differences (cooldown_left, last_bind_age) and every step     *)
(* starts its clock at Epoch.  One session.get / session.post is one       *)
(* outbound request.                                                       *)
(***************************************************************************)
EXTENDS Integers, Sequences, FiniteSets, TLC

VARIABLES
    \* ---- CSQAQScanner object -------------------------------------------
    api_token,               \* TRUE iff a token is configured
    state,                   \* self.state : BindState
    cooldown_left,           \* self.cooldown_end_time - time.time(), >= 0
    last_bind_age,           \* time.time() - self.last_bind_time, or Never
    \* ---- position of run() / run_scan() --------------------------------
    pc,                      \* "init","rank","loop","detail","chart","done"
    strategy,                \* 1 = filter_steady, 2 = filter_heavy
    page,                    \* page of the running get_rank_list
    nItems,                  \* len(unique_list) gathered so far
    idx,                     \* index of the record under analysis
    retry,                   \* loop variable of the running burst
    consecutive_401_errors,  \* run_scan's counter of failed detail lookups
    lookups,                 \* SpecBatch: result of every get_item_details
    \* ---- environment and observation -----------------------------------
    gap,                     \* tenths slept since the last outbound request
    sent,                    \* requests sent by the last step, in order
    burst,                   \* what the running burst has done so far
    ev,                      \* the last call: operation, result, states
    \* ---- UUAutoInvest.execute_investment -------------------------------
    ipc,                     \* "off","start","loop","done"
    cfg,                     \* uu_auto_invest: max_orders_per_run, test_mode
    candidates,              \* the candidate list: its source and length
    index,                   \* enumerate index (0-based) of the next one
    success_count,
    busy_counter,
    current_balance,
    attempts,                \* classification of every attempted candidate
    start_balance,           \* the balance read at the start of the run
    spent,                   \* sum of the prices of the orders placed
    last_order,              \* the last order handed to the platform
    signals,                 \* trade-intent records written to storage
    \* ---- the price test of execute_investment, prices in cents ---------
    quote,                   \* target_price and lowest_price
    verdict,                 \* "none", "pass" (falls through), "reject"
    \* ---- one record in run_scan's loop, with its metrics ---------------
    rank_item,               \* the record of the ranked list
    details,                 \* what /info/good holds for it, or NoDetails
    volatility,              \* what get_lease_stability would return
    batch_lease_avg,         \* self.batch_lease_avg
    stage,                   \* the filter stage the record stands before
    trace,                   \* the stages evaluated for it, in order
    outcome,                 \* "none","rejected","blocked","nodetail","kept"
    whitelist,               \* final_whitelist
    \* ---- one record in the loop of ItemHunter.hunt ---------------------
    hunt_item,               \* the record and what the API holds for it
    hunt_calls,              \* the requests made for it, in order
    hunt_reason,             \* "none", the stage that rejected it, or "ok"
    \* ---- the end of run_scan -------------------------------------------
    final_whitelist,         \* the accepted entries: tier, templateId
    sorted,                  \* TRUE once final_whitelist.sort has run
    \* ---- the rent-or-sell decision of the two plugins ------------------
    holding,                 \* buy and market price, CSQAQ price and yield
    lease_decision,          \* _make_rent_or_sell_decision_for_lease
    sell_decision,           \* _make_rent_or_sell_decision
    \* ---- the two get_rank_list calls of run_scan -----------------------
    list_steady,             \* yyyp_lease_num of the records of call 1
    list_heavy,              \* yyyp_lease_num of the records of call 2
    lease_avg,               \* self.batch_lease_avg, as the fraction sum / n
    fetched                  \* get_rank_list calls that have returned

scanVars == <<api_token, state, cooldown_left, last_bind_age, pc,
              strategy, page, nItems, idx, retry, consecutive_401_errors,
              lookups, gap, sent, burst, ev>>
investVars == <<ipc, cfg, candidates, index, success_count, busy_counter,
                current_balance, attempts, start_balance, spent, last_order,
                signals>>
gateVars == <<quote, verdict>>
filterVars == <<rank_item, details, volatility, batch_lease_avg, stage,
                trace, outcome, whitelist>>
huntVars == <<hunt_item, hunt_calls, hunt_reason>>
sortVars == <<final_whitelist, sorted>>
decideVars == <<holding, lease_decision, sell_decision>>
baseVars == <<list_steady, list_heavy, lease_avg, fetched>>
pureVars == <<gateVars, filterVars, huntVars, sortVars, decideVars,
              baseVars>>
\* What a specification of one function leaves alone: the others' state.
notGate == <<filterVars, huntVars, sortVars, decideVars, baseVars>>
notFilter == <<gateVars, huntVars, sortVars, decideVars, baseVars>>
notHunt == <<gateVars, filterVars, sortVars, decideVars, baseVars>>
notSort == <<gateVars, filterVars, huntVars, decideVars, baseVars>>
notDecide == <<gateVars, filterVars, huntVars, sortVars, baseVars>>
notBase == <<gateVars, filterVars, huntVars, sortVars, decideVars>>
vars == <<scanVars, investVars, pureVars>>

Min(a, b) == IF a < b THEN a ELSE b
Max(a, b) == IF a > b THEN a ELSE b

(***************************************************************************)
(* Bounds of the model.                                                    *)
(***************************************************************************)
MaxItems == 2        \* records in one deduplicated batch
MaxBatch == 8        \* records in one batch of the record-by-record view
MaxCands == 4        \* candidates a source may deliver
MaxAccepted == 4     \* entries of final_whitelist when it is sorted

(***************************************************************************)
(* Constants of Scanner.py.                                                *)
(***************************************************************************)
Tick == 50                   \* tenths of a second in one clock tick
BIND_COOLDOWN == 600         \* trigger_cooldown(60), in tenths
CHECK_SLEEP == 50            \* time.sleep(min(remaining, 5))
BIND_GUARD == 350            \* bind_local_ip: 35 s between unforced binds
REBIND_AGE == 600            \* a 401 re-binds if the last bind is > 60 s old
MAX_PAGES == 3               \* get_rank_list: max_pages
RANK_SLEEP == 10             \* get_rank_list: time.sleep(1) before a page
DETAIL_TRIES == 5            \* get_item_details: range(5)
CHART_TRIES == 3             \* get_lease_stability: range(3)
FIRST_SLEEP == 5             \* time.sleep(0.5) before the first attempt
LIMIT_SLEEP == 100           \* time.sleep(10) after a 429
MAX_401_ERRORS == 5          \* run_scan: max_401_errors
GapCap == 10                 \* gap saturates at the longest paced interval

BindStates == {"UNBOUND", "BINDING", "BOUND", "COOLDOWN", "INVALID"}

\* Answers of POST /sys/bind_local_ip: HTTP 200 with business code 200, 429
\* or another code; HTTP 429, 401, 403, another status; an exception.
BindAnswers == {"ok", "c429", "cErr", "h429", "h401", "h403", "h500", "exc"}

\* Answers of a data endpoint: HTTP 200 with code 200/201 and data, with
\* empty data, with code 401, 429 or another code; HTTP 401, 429, 404/400,
\* another status; a timeout; another exception.
DataAnswers == {"ok", "empty", "c401", "c429", "cErr",
                "h401", "h429", "h404", "h500", "timeout", "exc"}

\* get_rank_list tells apart HTTP 200 with data, HTTP 401, and the rest
\* (another code, another status, an exception), which all end the paging.
RankAnswers == {"ok", "cErr", "h401", "h429", "exc"}

\* bind_local_ip tells apart only the answers it returns True for (success,
\* business code 429, HTTP 429) and those it returns False for.
LegacyBindAnswers == {"ok", "h429", "h401", "cErr"}

\* Ages of the last bind beyond AgeCap ticks (more than 60 s) are alike to
\* every comparison of the code; Never stands for last_bind_time = 0.
AgeCap == (REBIND_AGE \div Tick) + 1
Never == 0 - 1
\* time.time() at the start of a step: the epoch clock is far more than
\* 60 s past 0, the value last_bind_time starts with.
Epoch == AgeCap + 1

(***************************************************************************)
(* The connection fields threaded through one step: m.state, m.cet         *)
(* (cooldown_end_time), m.lbt (last_bind_time), m.now, m.gap, m.sent,      *)
(* m.path (the values assigned to self.state, in order), m.n401 (401       *)
(* answers received), m.rebinds (bind requests sent in reaction to one).   *)
(***************************************************************************)
Conn == [state |-> state, cet |-> Epoch + cooldown_left,
         lbt |-> IF last_bind_age = Never THEN 0 ELSE Epoch - last_bind_age,
         now |-> Epoch, gap |-> gap, sent |-> <<>>, path |-> <<>>,
         n401 |-> 0, rebinds |-> 0]

\* time.sleep(d), d in tenths of a second.
Sleep(m, d) ==
    [m EXCEPT !.gap = Min(GapCap, @ + d), !.now = @ + (d \div Tick)]

\* self.session.get / self.session.post: one outbound request.
Send(m, kind) ==
    [m EXCEPT !.sent = Append(@, [kind |-> kind, gap |-> m.gap,
                                  st |-> m.state]),
              !.gap = 0]

SetState(m, s) == [m EXCEPT !.state = s, !.path = Append(@, s)]

\* trigger_cooldown(seconds)
trigger_cooldown(m, d) ==
    [SetState(m, "COOLDOWN") EXCEPT !.cet = m.now + (d \div Tick)]

\* _perform_bind(): returns [m, ret].
PerformBindLimitCools(tok, m0, ans) ==
    LET m1 == SetState(m0, "BINDING") IN
    IF ~tok THEN [m |-> SetState(m1, "INVALID"), ret |-> FALSE]
    ELSE LET m2 == Send(m1, "bind_sm") IN
         IF ans = "ok"
         THEN [m |-> [SetState(m2, "BOUND") EXCEPT !.lbt = m2.now],
               ret |-> TRUE]
         ELSE IF ans \in {"h401", "h403"}
         THEN [m |-> SetState(m2, "INVALID"), ret |-> FALSE]
         ELSE [m |-> trigger_cooldown(m2, BIND_COOLDOWN), ret |-> FALSE]
perform_bind(tok, m0, ans) ==
    LET m1 == SetState(m0, "BINDING") IN
    IF ~tok THEN [m |-> SetState(m1, "INVALID"), ret |-> FALSE]
    ELSE LET m2 == Send(m1, "bind_sm") IN
         CASE ans = "ok" ->
                [m |-> [SetState(m2, "BOUND") EXCEPT !.lbt = m2.now],
                 ret |-> TRUE]
           [] ans = "c429" ->
                [m |-> [SetState(m2, "BOUND") EXCEPT !.lbt = m2.now],
                 ret |-> TRUE]
           [] ans = "cErr" ->
                [m |-> trigger_cooldown(m2, BIND_COOLDOWN), ret |-> FALSE]
           [] ans = "h429" ->
                [m |-> [SetState(m2, "BOUND") EXCEPT !.lbt = m2.now],
                 ret |-> TRUE]
           [] ans \in {"h401", "h403"} ->
                [m |-> SetState(m2, "INVALID"), ret |-> FALSE]
           [] ans = "h500" ->
                [m |-> trigger_cooldown(m2, BIND_COOLDOWN), ret |-> FALSE]
           [] ans = "exc" ->
                [m |-> trigger_cooldown(m2, BIND_COOLDOWN), ret |-> FALSE]

\* check_state(): returns [m, ret].
CheckStateRetriesInvalid(tok, m0, ans) ==
    IF m0.state = "COOLDOWN" /\ m0.cet - m0.now > 0
    THEN [m |-> Sleep(m0, Min((m0.cet - m0.now) * Tick, CHECK_SLEEP)),
          ret |-> FALSE]
    ELSE LET m1 == IF m0.state \in {"COOLDOWN", "INVALID"}
                   THEN SetState(m0, "UNBOUND") ELSE m0
         IN IF m1.state = "UNBOUND" THEN perform_bind(tok, m1, ans)
            ELSE [m |-> m1, ret |-> TRUE]
CheckStateIgnoresTimer(tok, m0, ans) ==
    IF m0.state = "INVALID" THEN [m |-> m0, ret |-> FALSE]
    ELSE LET m1 == IF m0.state = "COOLDOWN" THEN SetState(m0, "UNBOUND")
                   ELSE m0
         IN IF m1.state = "UNBOUND" THEN perform_bind(tok, m1, ans)
            ELSE [m |-> m1, ret |-> TRUE]
check_state(tok, m0, ans) ==
    IF m0.state = "INVALID" THEN [m |-> m0, ret |-> FALSE]
    ELSE IF m0.state = "COOLDOWN" /\ m0.cet - m0.now > 0
    THEN [m |-> Sleep(m0, Min((m0.cet - m0.now) * Tick, CHECK_SLEEP)),
          ret |-> FALSE]
    ELSE LET m1 == IF m0.state = "COOLDOWN" THEN SetState(m0, "UNBOUND")
                   ELSE m0
         IN IF m1.state = "UNBOUND" THEN perform_bind(tok, m1, ans)
            ELSE [m |-> m1, ret |-> TRUE]

\* bind_local_ip(force): returns [m, ret]. It never assigns self.state.
bind_local_ip(tok, m0, force, ans) ==
    IF ~tok THEN [m |-> m0, ret |-> FALSE]
    ELSE IF ~force /\ (m0.now - m0.lbt) * Tick < BIND_GUARD
    THEN [m |-> m0, ret |-> TRUE]
    ELSE LET m1 == Send(m0, "bind") IN
         CASE ans = "h429" -> [m |-> [m1 EXCEPT !.lbt = m0.now], ret |-> TRUE]
           [] ans \in {"h401", "h403", "h500"} -> [m |-> m1, ret |-> FALSE]
           [] ans = "ok" -> [m |-> [m1 EXCEPT !.lbt = m0.now], ret |-> TRUE]
           [] ans = "c429" -> [m |-> [m1 EXCEPT !.lbt = m0.now], ret |-> TRUE]
           [] ans = "cErr" -> [m |-> m1, ret |-> FALSE]
           [] ans = "exc" -> [m |-> m1, ret |-> FALSE]

\* A bind_local_ip(force=True) made in reaction to a 401.
Rebind(tok, m0, ans) ==
    LET r == bind_local_ip(tok, m0, TRUE, ans) IN
    [m |-> [r.m EXCEPT !.rebinds = @ + (Len(r.m.sent) - Len(m0.sent))],
     ret |-> r.ret]

(***************************************************************************)
(* The polling bursts.  One step is one pass of the burst's loop (one page *)
(* of get_rank_list, one attempt of get_item_details or                    *)
(* get_lease_stability).  Each returns [m, out], out being "retry" (the     *)
(* loop goes on), "none" (return None / break) or "result".                *)
(***************************************************************************)

\* The sleep at the top of attempt r (r = 0 is the first attempt).
PreSleepFlat(r) == IF r > 0 THEN 15 ELSE FIRST_SLEEP
PreSleep(r) == IF r > 0 THEN 10 + r * 5 ELSE FIRST_SLEEP

\* The reaction to a 401 (HTTP status or business code) in attempt r of
\* get_item_details / get_lease_stability.
On401GivesUp(tok, m0, r, b) ==
    LET m1 == IF r = 0 /\ (m0.lbt = 0 \/ (m0.now - m0.lbt) * Tick > REBIND_AGE)
              THEN LET rb == Rebind(tok, m0, b)
                   IN IF rb.ret THEN Sleep(rb.m, 30) ELSE rb.m
              ELSE m0
        m2 == IF r >= 2 THEN SetState(m1, "INVALID") ELSE m1
    IN Sleep([m2 EXCEPT !.n401 = @ + 1], 30 + r * 10)
On401(tok, m0, r, b) ==
    LET m1 == IF r = 0 /\ (m0.lbt = 0 \/ (m0.now - m0.lbt) * Tick > REBIND_AGE)
              THEN LET rb == Rebind(tok, m0, b)
                   IN IF rb.ret THEN Sleep(rb.m, 30) ELSE rb.m
              ELSE m0
    IN Sleep([m1 EXCEPT !.n401 = @ + 1], 30 + r * 10)

\* get_item_details: what follows an HTTP 200 answer with body `body`.
DetailBodyLimitCools(tok, m0, r, body, b) ==
    CASE body = "c429" -> [m |-> trigger_cooldown(m0, BIND_COOLDOWN),
                           out |-> "retry"]
      [] body = "c401" -> [m |-> On401(tok, m0, r, b), out |-> "retry"]
      [] body = "cErr" -> IF r < DETAIL_TRIES - 1
                          THEN [m |-> Sleep(m0, 20), out |-> "retry"]
                          ELSE [m |-> m0, out |-> "none"]
      [] body = "empty" -> IF r < DETAIL_TRIES - 1
                           THEN [m |-> Sleep(m0, 10), out |-> "retry"]
                           ELSE [m |-> m0, out |-> "none"]
      [] body = "ok" -> [m |-> m0, out |-> "result"]
DetailBody(tok, m0, r, body, b) ==
    CASE body = "c429" -> [m |-> Sleep(m0, LIMIT_SLEEP), out |-> "retry"]
      [] body = "c401" -> [m |-> On401(tok, m0, r, b), out |-> "retry"]
      [] body = "cErr" -> IF r < DETAIL_TRIES - 1
                          THEN [m |-> Sleep(m0, 20), out |-> "retry"]
                          ELSE [m |-> m0, out |-> "none"]
      [] body = "empty" -> IF r < DETAIL_TRIES - 1
                           THEN [m |-> Sleep(m0, 10), out |-> "retry"]
                           ELSE [m |-> m0, out |-> "none"]
      [] body = "ok" -> [m |-> m0, out |-> "result"]

\* get_item_details: the except clauses.
DetailExcept(m0, r, a) ==
    IF r < DETAIL_TRIES - 1
    THEN [m |-> Sleep(m0, IF a = "timeout" THEN 10 + r * 5 ELSE 10),
          out |-> "retry"]
    ELSE [m |-> m0, out |-> "none"]

IsBody(a) == a \in {"ok", "empty", "c401", "c429", "cErr"}

\* One attempt of get_item_details: a1 answers the request, a2 the fallback
\* request (parameter good_id), b a re-bind.
DetailAttempt(tok, m0, r, a1, a2, b) ==
    LET m1 == Send(Sleep(m0, PreSleep(r)), "detail") IN
    CASE a1 \in {"timeout", "exc"} -> DetailExcept(m1, r, a1)
      [] a1 = "h429" -> [m |-> Sleep(m1, LIMIT_SLEEP), out |-> "retry"]
      [] a1 = "h401" -> [m |-> On401(tok, m1, r, b), out |-> "retry"]
      [] a1 = "h404" ->
            LET m2 == Send(m1, "detail_fb") IN
            IF a2 \in {"timeout", "exc"} THEN DetailExcept(m2, r, a2)
            ELSE IF ~IsBody(a2)
            THEN [m |-> m2,
                  out |-> IF r < DETAIL_TRIES - 1 THEN "retry" ELSE "none"]
            ELSE DetailBody(tok, m2, r, a2, b)
      [] a1 = "h500" -> IF r < DETAIL_TRIES - 1
                        THEN [m |-> Sleep(m1, 20), out |-> "retry"]
                        ELSE [m |-> m1, out |-> "none"]
      [] IsBody(a1) -> DetailBody(tok, m1, r, a1, b)

\* One attempt of get_lease_stability.  "empty" is a series of fewer than 5
\* points, "ok" a series the volatility is computed from.
ChartAttempt(tok, m0, r, a, b) ==
    LET m1 == Send(Sleep(m0, PreSleep(r)), "chart") IN
    CASE a = "h429" -> [m |-> Sleep(m1, LIMIT_SLEEP), out |-> "retry"]
      [] a = "h401" -> [m |-> On401(tok, m1, r, b), out |-> "retry"]
      [] a \in {"h404", "h500"} ->
            IF r < CHART_TRIES - 1
            THEN [m |-> Sleep(m1, 20), out |-> "retry"]
            ELSE [m |-> m1, out |-> "none"]
      [] a = "c429" -> [m |-> Sleep(m1, LIMIT_SLEEP), out |-> "retry"]
      [] a = "c401" -> [m |-> On401(tok, m1, r, b), out |-> "retry"]
      [] a = "cErr" -> IF r < CHART_TRIES - 1
                       THEN [m |-> Sleep(m1, 20), out |-> "retry"]
                       ELSE [m |-> m1, out |-> "none"]
      [] a = "empty" -> [m |-> m1, out |-> "none"]
      [] a = "ok" -> [m |-> m1, out |-> "result"]
      [] a = "timeout" -> IF r < 1
                          THEN [m |-> Sleep(m1, 10), out |-> "retry"]
                          ELSE [m |-> m1, out |-> "none"]
      [] a = "exc" -> [m |-> m1, out |-> "none"]

\* get_rank_list: the reaction to an HTTP 401 answer of a page. Returns
\* [m, go]: go = "resend" (the page is requested again), "fall" (the 401
\* answer is kept) or "break".
RankOn401(tok, m0, b1, b2) ==
    LET r1 == Rebind(tok, [m0 EXCEPT !.n401 = @ + 1], b1) IN
    IF r1.ret THEN [m |-> Sleep(r1.m, 20), go |-> "resend"]
    ELSE IF r1.m.lbt > 0
    THEN LET wait == Max(0, BIND_GUARD - (r1.m.now - r1.m.lbt) * Tick) IN
         IF wait > 0
         THEN LET r2 == Rebind(tok, Sleep(r1.m, wait), b2) IN
              IF r2.ret THEN [m |-> Sleep(r2.m, 20), go |-> "resend"]
              ELSE [m |-> r2.m, go |-> "break"]
         ELSE [m |-> r1.m, go |-> "fall"]
    ELSE [m |-> r1.m, go |-> "break"]

\* One page of get_rank_list: b0 answers the first-run bind, a1 the page
\* request, b1 and b2 the re-binds, a2 the repeated page request.
\* out = "retry" stands for "the page brought items, go to the next one".
RankPage(tok, m0, b0, a1, b1, b2, a2) ==
    LET m1 == IF m0.lbt = 0 THEN bind_local_ip(tok, m0, TRUE, b0).m ELSE m0
        m2 == Send(Sleep(m1, RANK_SLEEP), "rank")
    IN IF a1 # "h401"
       THEN [m |-> m2, out |-> IF a1 = "ok" THEN "retry" ELSE "none"]
       ELSE LET h == RankOn401(tok, m2, b1, b2) IN
            IF h.go = "resend"
            THEN [m |-> [Send(h.m, "rank") EXCEPT
                           !.n401 = @ + (IF a2 = "h401" THEN 1 ELSE 0)],
                  out |-> IF a2 = "ok" THEN "retry" ELSE "none"]
            ELSE [m |-> h.m, out |-> "none"]

(***************************************************************************)
(* Specification Spec: one process running CSQAQScanner.run().             *)
(***************************************************************************)
\* burst: the running call of get_rank_list, get_item_details or
\* get_lease_stability, the 401 answers it has received and the re-binds it
\* has sent.
NoBurst == [kind |-> "none", n401 |-> 0, rebinds |-> 0]
NewBurst(k) == [NoBurst EXCEPT !.kind = k]

\* ev: the last step. op names the operation, ret its result, ans the
\* answer its (first) request got, before / left the values of self.state
\* and (for check_state) of the cooldown timer when it began, path what it
\* assigned to self.state, pre the sleeps at the top of the attempts of the
\* burst.
NoEvent == [op |-> "none", ret |-> "none", ans |-> "none",
            before |-> "UNBOUND", left |-> 0, path |-> <<>>, pre |-> <<>>]
Event(op, ret, ans, m, pre) ==
    [op |-> op, ret |-> ret, ans |-> ans, before |-> state,
     left |-> IF op = "check_state" THEN cooldown_left ELSE 0,
     path |-> m.path, pre |-> pre]
Sent(m, kind) == \E i \in 1 .. Len(m.sent) : m.sent[i].kind = kind

Is401(a) == a \in {"h401", "c401"}

\* The answers bind_local_ip returns True for.
BindAccepted(b) == b \in {"ok", "c429", "h429"}

NoCandidates == [src |-> "none", n |-> 0]

\* last_order: the target price of the order, the live lowest price it was
\* computed with, the price and the bid stored with the candidate, the
\* tracked balance when it was placed, and the platform's answer
\* ("simulated" in test mode, where no request is sent).
NoOrder == [price |-> 0, lowest |-> 0, listed |-> 0, bid |-> 0,
            balance |-> 0, answer |-> "none"]

NoQuote == [target |-> 0, lowest |-> 0]
GateIdle == quote = NoQuote /\ verdict = "none"
NoRecord == [rate_90 |-> 0, rate_30 |-> 0, rate_7 |-> 0, heavy |-> FALSE]
NoDetails == [lease_num |-> 0, sell_num |-> 0, daily_rent |-> 0,
              found |-> FALSE]
Unknown == -1        \* get_lease_stability returned None
FilterIdle ==
    /\ rank_item = NoRecord /\ details = NoDetails /\ volatility = Unknown
    /\ batch_lease_avg = 0 /\ stage = "off" /\ trace = <<>>
    /\ outcome = "none" /\ whitelist = <<>>
NoDetail == -1       \* get_item_detail returned None
NoHuntItem == [has_id |-> FALSE, roi |-> 0, rate_90 |-> 0, sell_num |-> 0,
               lease_num |-> 0, detail_lease |-> NoDetail, chart |-> "none",
               premium |-> 0, rate_7 |-> 0]
HuntIdle ==
    hunt_item = NoHuntItem /\ hunt_calls = <<>> /\ hunt_reason = "none"
SortIdle == final_whitelist = <<>> /\ sorted = FALSE
NoHolding == [buy_price |-> 0, market_price |-> 0, yyyp_sell_price |-> 0,
              apy |-> 0]
DecideIdle ==
    holding = NoHolding /\ lease_decision = "none" /\ sell_decision = "none"
\* self.batch_lease_avg = 0 before the first get_rank_list call
NoAverage == [sum |-> 0, n |-> 1]
BaseIdle ==
    /\ list_steady = <<>> /\ list_heavy = <<>>
    /\ lease_avg = NoAverage /\ fetched = 0
PureIdle ==
    GateIdle /\ FilterIdle /\ HuntIdle /\ SortIdle /\ DecideIdle /\ BaseIdle
NotGateIdle == FilterIdle /\ HuntIdle /\ SortIdle /\ DecideIdle /\ BaseIdle
NotFilterIdle == GateIdle /\ HuntIdle /\ SortIdle /\ DecideIdle /\ BaseIdle
NotHuntIdle == GateIdle /\ FilterIdle /\ SortIdle /\ DecideIdle /\ BaseIdle
NotSortIdle == GateIdle /\ FilterIdle /\ HuntIdle /\ DecideIdle /\ BaseIdle
NotDecideIdle == GateIdle /\ FilterIdle /\ HuntIdle /\ SortIdle /\ BaseIdle
NotBaseIdle == GateIdle /\ FilterIdle /\ HuntIdle /\ SortIdle /\ DecideIdle

InvestIdle ==
    /\ ipc = "off" /\ cfg = [max_orders |-> 0, test_mode |-> FALSE]
    /\ candidates = NoCandidates /\ index = 0 /\ success_count = 0
    /\ busy_counter = 0 /\ current_balance = 0 /\ attempts = <<>>
    /\ start_balance = 0 /\ spent = 0 /\ last_order = NoOrder
    /\ signals = <<>>

Init ==
    /\ api_token \in BOOLEAN
    /\ state = "UNBOUND"
    /\ cooldown_left = 0
    /\ last_bind_age = Never
    /\ pc = "init" /\ strategy = 1 /\ page = 1 /\ nItems = 0 /\ idx = 1
    /\ retry = 0 /\ consecutive_401_errors = 0
    /\ lookups = <<>>
    /\ gap = GapCap
    /\ sent = <<>>
    /\ burst = NoBurst
    /\ ev = NoEvent
    /\ InvestIdle
    /\ PureIdle

\* The step leaves the connection fields as m has them.
Commit(m) ==
    /\ state' = m.state
    /\ cooldown_left' = Max(0, m.cet - m.now)
    /\ last_bind_age' = IF m.lbt = 0 THEN Never
                        ELSE Min(AgeCap, m.now - m.lbt)
    /\ gap' = m.gap
    /\ sent' = m.sent

\* run_scan's for loop: `continue` after record i, d tenths slept before it.
Continue(m, d) ==
    /\ Commit(Sleep(m, d))
    /\ IF idx + 1 > nItems
       THEN pc' = "done" /\ idx' = idx
       ELSE pc' = "loop" /\ idx' = idx + 1
    /\ retry' = 0
    /\ burst' = NoBurst

\* run_scan's counter of failed detail lookups after one more lookup, and
\* the test that stops the scan.
NextErrorsNoReset(c, found) == IF found THEN c ELSE c + 1
NextErrors(c, found) == IF found THEN 0 ELSE c + 1
TooManyErrors(c) == c >= MAX_401_ERRORS

\* run(): refuses to run without a token; else bind_local_ip(), sleep 1 s
\* and run_scan(), which starts with get_rank_list(filter_steady).
Run ==
    /\ pc = "init"
    /\ UNCHANGED <<api_token, nItems, idx, retry, consecutive_401_errors,
                   lookups, strategy, page, investVars, pureVars>>
    /\ \/ /\ ~api_token
          /\ pc' = "done"
          /\ ev' = Event("run", "false", "none", Conn, <<>>)
          /\ UNCHANGED <<state, cooldown_left, last_bind_age, gap, sent,
                         burst>>
       \/ /\ api_token
          /\ \E b \in LegacyBindAnswers :
               LET r == bind_local_ip(api_token, Conn, FALSE, b) IN
               /\ Commit(Sleep(r.m, 10))
               /\ ev' = Event("run", IF r.ret THEN "true" ELSE "false",
                               IF Sent(r.m, "bind") THEN b ELSE "none",
                               r.m, <<>>)
          /\ pc' = "rank"
          /\ burst' = NewBurst("rank")

\* One page of get_rank_list, and what run_scan does when the call returns.
GetRankListPage ==
    /\ pc = "rank"
    /\ \E a1 \in RankAnswers :
       \E b0 \in IF last_bind_age = Never THEN LegacyBindAnswers ELSE {"ok"} :
       \E b1 \in IF a1 = "h401" THEN LegacyBindAnswers ELSE {"ok"} :
       \E b2 \in IF a1 = "h401" /\ ~BindAccepted(b1)
                    /\ last_bind_age \in 0 .. ((BIND_GUARD \div Tick) - 1)
                 THEN LegacyBindAnswers ELSE {"ok"} :
       \E a2 \in IF a1 = "h401" /\ (BindAccepted(b1) \/ BindAccepted(b2))
                 THEN RankAnswers ELSE {"ok"} :
       \E k \in IF a1 = "ok" \/ (a1 = "h401" /\ a2 = "ok")
                THEN 0 .. (MaxItems - nItems) ELSE {0} :
         LET r == RankPage(api_token, Conn, b0, a1, b1, b2, a2)
             got == IF r.out = "retry" THEN k ELSE 0
             more == r.out = "retry" /\ page < MAX_PAGES
             nb == [burst EXCEPT !.n401 = @ + r.m.n401,
                                !.rebinds = @ + r.m.rebinds]
         IN /\ nItems' = nItems + got
            /\ ev' = Event("rank", r.out, a1, r.m, <<>>)
            /\ IF more
               THEN /\ Commit(r.m)
                    /\ page' = page + 1
                    /\ burst' = nb
                    /\ UNCHANGED <<pc, strategy>>
               ELSE IF strategy = 1
               THEN /\ Commit(Sleep(r.m, 10))
                    /\ strategy' = 2 /\ page' = 1
                    /\ burst' = nb
                    /\ UNCHANGED pc
               ELSE /\ Commit(r.m)
                    /\ pc' = IF nItems + got = 0 THEN "done" ELSE "loop"
                    /\ burst' = nb
                    /\ UNCHANGED <<strategy, page>>
    /\ UNCHANGED <<api_token, idx, retry, consecutive_401_errors, lookups,
                   investVars, pureVars>>

\* The head of one pass of run_scan's loop: the record has no id, has a
\* price or rate field that float() cannot parse (ValueError leaves
\* run_scan and is logged by run()), fails a trend check, or passes and
\* check_state() is asked.
ScanItem ==
    /\ pc = "loop"
    /\ \E rec \in {"noid", "unparsable", "trendfail", "pass"} :
       \E b \in IF rec = "pass" THEN BindAnswers ELSE {"ok"} :
         CASE rec = "noid" ->
                /\ Continue(Conn, 0)
                /\ ev' = Event("skip", "none", "none", Conn, <<>>)
           [] rec = "unparsable" ->
                /\ Commit(Conn)
                /\ pc' = "failed" /\ retry' = 0 /\ burst' = NoBurst
                /\ ev' = Event("convert", "raise", "none", Conn, <<>>)
                /\ UNCHANGED idx
           [] rec = "trendfail" ->
                /\ Continue(Conn, 3)
                /\ ev' = Event("filter", "none", "none", Conn, <<>>)
           [] rec = "pass" ->
                LET r == check_state(api_token, Conn, b) IN
                /\ ev' = Event("check_state",
                               IF r.ret THEN "true" ELSE "false",
                               IF Sent(r.m, "bind_sm") THEN b ELSE "none",
                               r.m, <<>>)
                /\ IF r.ret
                   THEN /\ Commit(r.m)
                        /\ pc' = "detail" /\ retry' = 0
                        /\ burst' = NewBurst("detail")
                        /\ UNCHANGED idx
                   ELSE Continue(r.m, 0)
    /\ UNCHANGED <<api_token, strategy, page, nItems, consecutive_401_errors,
                   lookups, investVars, pureVars>>

\* One attempt of get_item_details, and what run_scan does with the result:
\* None counts a failure (the scan stops at MAX_401_ERRORS in a row); a
\* result passes or fails the rent / leased-count / lease-ratio floors.
GetItemDetailsAttempt ==
    /\ pc = "detail"
    /\ \E a1 \in DataAnswers :
       \E a2 \in IF a1 = "h404" THEN DataAnswers ELSE {"ok"} :
       \E b \in IF retry = 0 /\ (Is401(a1) \/ (a1 = "h404" /\ a2 = "c401"))
                THEN LegacyBindAnswers ELSE {"ok"} :
       \E pass \in IF a1 = "ok" \/ (a1 = "h404" /\ a2 = "ok")
                   THEN BOOLEAN ELSE {TRUE} :
         LET r == DetailAttempt(api_token, Conn, retry, a1, a2, b)
             out == IF r.out = "retry" /\ retry >= DETAIL_TRIES - 1
                    THEN "none" ELSE r.out
             nb == [burst EXCEPT !.n401 = @ + r.m.n401,
                                !.rebinds = @ + r.m.rebinds]
             pre == IF retry = 0 THEN <<>> ELSE ev.pre
         IN /\ ev' = Event("detail", out, a1, r.m,
                           Append(pre, PreSleep(retry)))
            /\ CASE out = "retry" ->
                      /\ Commit(r.m)
                      /\ retry' = retry + 1
                      /\ burst' = nb
                      /\ UNCHANGED <<pc, idx, consecutive_401_errors, lookups>>
                 [] out = "none" ->
                      /\ consecutive_401_errors' =
                             NextErrors(consecutive_401_errors, FALSE)
                      /\ UNCHANGED lookups
                      /\ IF TooManyErrors(
                                NextErrors(consecutive_401_errors, FALSE))
                         THEN /\ Commit(r.m)
                              /\ pc' = "done" /\ retry' = 0 /\ burst' = NoBurst
                              /\ UNCHANGED idx
                         ELSE Continue(r.m, 5)
                 [] out = "result" ->
                      /\ consecutive_401_errors' =
                             NextErrors(consecutive_401_errors, TRUE)
                      /\ UNCHANGED lookups
                      /\ IF pass
                         THEN /\ Commit(r.m)
                              /\ pc' = "chart" /\ retry' = 0
                              /\ burst' = NewBurst("chart")
                              /\ UNCHANGED idx
                         ELSE Continue(r.m, 3)
    /\ UNCHANGED <<api_token, strategy, page, nItems, investVars, pureVars>>

\* One attempt of get_lease_stability, and what run_scan does with the
\* result: None marks the volatility unknown and the record is kept, a
\* volatility above MAX_VOLATILITY rejects it.
GetLeaseStabilityAttempt ==
    /\ pc = "chart"
    /\ \E a \in DataAnswers :
       \E b \in IF retry = 0 /\ Is401(a) THEN LegacyBindAnswers ELSE {"ok"} :
       \E high \in IF a = "ok" THEN BOOLEAN ELSE {TRUE} :
         LET r == ChartAttempt(api_token, Conn, retry, a, b)
             out == IF r.out = "retry" /\ retry >= CHART_TRIES - 1
                    THEN "none" ELSE r.out
             nb == [burst EXCEPT !.n401 = @ + r.m.n401,
                                !.rebinds = @ + r.m.rebinds]
             pre == IF retry = 0 THEN <<>> ELSE ev.pre
         IN /\ ev' = Event("chart", out, a, r.m,
                           Append(pre, PreSleep(retry)))
            /\ IF out = "retry"
               THEN /\ Commit(r.m)
                    /\ retry' = retry + 1
                    /\ burst' = nb
                    /\ UNCHANGED <<pc, idx>>
               ELSE Continue(r.m, IF out = "result" /\ high THEN 3 ELSE 5)
    /\ UNCHANGED <<api_token, strategy, page, nItems, consecutive_401_errors,
                   lookups, investVars, pureVars>>

\* A stall of AgeCap ticks between two steps.
Elapse ==
    /\ pc \notin {"init", "done", "failed"}
    /\ cooldown_left > 0 \/ last_bind_age \in 0 .. (AgeCap - 1)
    /\ cooldown_left' = Max(0, cooldown_left - AgeCap)
    /\ last_bind_age' = IF last_bind_age = Never THEN Never
                        ELSE Min(AgeCap, last_bind_age + AgeCap)
    /\ UNCHANGED <<api_token, state, pc, strategy, page, nItems, idx, retry,
                   consecutive_401_errors, lookups, gap, sent, burst, ev,
                   investVars, pureVars>>

Next ==
    \/ Run
    \/ GetRankListPage
    \/ ScanItem
    \/ GetItemDetailsAttempt
    \/ GetLeaseStabilityAttempt
    \/ Elapse

Spec == Init /\ [][Next]_vars

(***************************************************************************)
(* Specification SpecBatch: the same run() seen record by record, for      *)
(* batches longer than MaxItems.  A call of get_rank_list or               *)
(* get_item_details is taken by its result; the requests and re-binds      *)
(* inside the call, which touch last_bind_time only, are the matter of     *)
(* Spec.  check_state() and the loop of run_scan are as in Spec.           *)
(***************************************************************************)

\* run() up to the head of run_scan's loop: the bind, the two ranked lists
\* and the deduplicated batch of n records.
StartScan ==
    /\ pc = "init"
    /\ UNCHANGED <<api_token, idx, retry, consecutive_401_errors, lookups,
                   strategy, page, burst, investVars, pureVars>>
    /\ IF ~api_token
       THEN /\ pc' = "done"
            /\ ev' = Event("run", "false", "none", Conn, <<>>)
            /\ UNCHANGED <<state, cooldown_left, last_bind_age, gap, sent,
                           nItems>>
       ELSE \E b \in LegacyBindAnswers :
            \E n \in 0 .. MaxBatch :
              LET r == bind_local_ip(api_token, Conn, FALSE, b) IN
              /\ Commit(Sleep(r.m, 10))
              /\ ev' = Event("run", IF r.ret THEN "true" ELSE "false",
                             IF Sent(r.m, "bind") THEN b ELSE "none",
                             r.m, <<>>)
              /\ nItems' = n
              /\ pc' = IF n = 0 THEN "done" ELSE "loop"

\* One pass of run_scan's loop: look is the result of get_item_details
\* ("none" for None), keep the verdict of the checks that follow it.  A
\* record with a price or rate field that float() cannot parse raises
\* ValueError in the loop body; nothing in run_scan catches it, the call
\* ends without a return value and run() logs the exception.
ScanRecord ==
    /\ pc = "loop"
    /\ UNCHANGED <<api_token, strategy, page, nItems, investVars, pureVars>>
    /\ \E rec \in {"noid", "unparsable", "trendfail", "pass"} :
       \E b \in IF rec = "pass" THEN BindAnswers ELSE {"ok"} :
       \E look \in IF rec = "pass" THEN {"none", "result"} ELSE {"none"} :
       \E keep \in IF rec = "pass" /\ look = "result" THEN BOOLEAN
                   ELSE {FALSE} :
         CASE rec = "noid" ->
                /\ Continue(Conn, 0)
                /\ ev' = Event("skip", "none", "none", Conn, <<>>)
                /\ UNCHANGED <<consecutive_401_errors, lookups>>
           [] rec = "unparsable" ->
                /\ Commit(Conn)
                /\ pc' = "failed" /\ retry' = 0 /\ burst' = NoBurst
                /\ ev' = Event("convert", "raise", "none", Conn, <<>>)
                /\ UNCHANGED <<idx, consecutive_401_errors, lookups>>
           [] rec = "trendfail" ->
                /\ Continue(Conn, 3)
                /\ ev' = Event("filter", "none", "none", Conn, <<>>)
                /\ UNCHANGED <<consecutive_401_errors, lookups>>
           [] rec = "pass" ->
                LET r == check_state(api_token, Conn, b)
                    errors == NextErrors(consecutive_401_errors,
                                         look = "result")
                IN IF ~r.ret
                   THEN /\ Continue(r.m, 0)
                        /\ ev' = Event("check_state", "false",
                                       IF Sent(r.m, "bind_sm") THEN b
                                       ELSE "none", r.m, <<>>)
                        /\ UNCHANGED <<consecutive_401_errors, lookups>>
                   ELSE /\ ev' = Event("lookup", look, "none", r.m, <<>>)
                        /\ consecutive_401_errors' = errors
                        /\ lookups' = Append(lookups,
                                             IF look = "result" THEN "ok"
                                             ELSE "fail")
                        /\ IF look = "none" /\ TooManyErrors(errors)
                           THEN /\ Commit(r.m)
                                /\ pc' = "done" /\ retry' = 0
                                /\ burst' = NoBurst
                                /\ UNCHANGED idx
                           ELSE Continue(r.m, IF keep THEN 5 ELSE 3)

NextBatch ==
    \/ StartScan
    \/ ScanRecord
    \/ Elapse

SpecBatch == Init /\ [][NextBatch]_vars

(***************************************************************************)
(* Specification SpecInvest: one call of UUAutoInvest.execute_investment.  *)
(* Prices are in yuan.  The fields of a candidate are read when its turn   *)
(* comes (each candidate is handled once), so the list is kept as its      *)
(* source and its length.                                                  *)
(***************************************************************************)
MAX_BUSY_COUNT == 2          \* max_busy_count
MAX_WHITELIST_TRY == 3       \* max_whitelist_try
MAX_ORDERS_PER_RUN == 5      \* max_orders_per_run
MIN_BALANCE_REQUIRED == 100  \* min_balance_required
MIN_PRICE == 100             \* min_price
MAX_PRICE == 2000            \* max_price

Balances == {50, 400, 1500}          \* what refresh_balance may report
LivePrices == {100, 200, 1000, 2500} \* lowest price on sale right now
ListedPrices == {150, 950}           \* buy_limit / target_buy_price
BidPrices == {0, 150}                \* yyyp_buy_price of an API candidate

\* round(price * pct / 100, 2) for a price in whole yuan, kept in yuan: the
\* prices above make every product a whole number.
Pct(price, pct) == (price * pct) \div 100

\* The target price of execute_investment for a candidate `item` and the
\* live lowest price.
TargetPrice(src, item, lowest) ==
    IF src = "whitelist"
    THEN IF item.listed > 0 THEN item.listed ELSE Pct(lowest, 92)
    ELSE LET t == Pct(lowest, 90) IN
         IF src = "api" /\ item.bid > 0 /\ t > item.bid
         THEN Pct(item.bid, 98) ELSE t

\* `if target_price >= lowest_price: continue`, in any unit of money.
BelowMarket(target, lowest) == ~(target >= lowest)

\* The pre-trade checks: below the live price, inside the band, affordable.
PreTradeOkNoFunds(target, lowest, balance) ==
    /\ ~(target >= lowest)
    /\ MIN_PRICE <= target /\ target <= MAX_PRICE
PreTradeOkNoBand(target, lowest, balance) ==
    /\ BelowMarket(target, lowest)
    /\ ~(balance < target)
PreTradeOkNoMarket(target, lowest, balance) ==
    /\ MIN_PRICE <= target /\ target <= MAX_PRICE
    /\ ~(balance < target)
PreTradeOk(target, lowest, balance) ==
    /\ BelowMarket(target, lowest)
    /\ MIN_PRICE <= target /\ target <= MAX_PRICE
    /\ ~(balance < target)

\* The two checks at the head of the for loop.
BreakerOpenLate(sc, bc) ==
    sc >= cfg.max_orders \/ bc > MAX_BUSY_COUNT
CapCheckedLate(sc, bc) ==
    sc > cfg.max_orders \/ bc >= MAX_BUSY_COUNT
LoopBreaks(sc, bc) ==
    sc >= cfg.max_orders \/ bc >= MAX_BUSY_COUNT

ScanIdle ==
    /\ api_token = TRUE /\ state = "UNBOUND" /\ cooldown_left = 0
    /\ last_bind_age = Never /\ pc = "off" /\ strategy = 1 /\ page = 1
    /\ nItems = 0 /\ idx = 1 /\ retry = 0 /\ consecutive_401_errors = 0
    /\ lookups = <<>>
    /\ gap = GapCap /\ sent = <<>> /\ burst = NoBurst /\ ev = NoEvent

InitInvest ==
    /\ ScanIdle
    /\ PureIdle
    /\ ipc = "start"
    /\ cfg \in [max_orders : {1, MAX_ORDERS_PER_RUN}, test_mode : BOOLEAN]
    /\ candidates = NoCandidates
    /\ index = 0 /\ success_count = 0 /\ busy_counter = 0
    /\ current_balance = 0
    /\ attempts = <<>>
    /\ start_balance = 0 /\ spent = 0 /\ last_order = NoOrder
    /\ signals = <<>>

\* Steps 1 and 2 of execute_investment: the balance, the candidate list
\* (whitelist, else API, else file), the shuffle and the whitelist cut.
StartInvestment ==
    /\ ipc = "start"
    /\ \E bal \in Balances \cup {-1} :
       \E src \in {"whitelist", "api", "file"} :
       \E n \in 0 .. MaxCands :
         /\ current_balance' = IF bal = -1 THEN 0 ELSE bal
         /\ start_balance' = IF bal = -1 THEN 0 ELSE bal
         /\ IF bal = -1 \/ bal < MIN_BALANCE_REQUIRED \/ bal < MIN_PRICE
            THEN /\ ipc' = "done"
                 /\ UNCHANGED candidates
            ELSE /\ candidates' =
                      [src |-> src,
                       n |-> IF src = "whitelist"
                             THEN Min(n, MAX_WHITELIST_TRY) ELSE n]
                 /\ ipc' = IF n = 0 THEN "done" ELSE "loop"
    /\ UNCHANGED <<cfg, index, success_count, busy_counter, attempts,
                   spent, last_order, signals, scanVars, pureVars>>

\* The answers of publish_purchase_order: Code 0, a business rejection, a
\* rate-limit / system-busy code, the re-authentication-required code, an
\* exception (of the call or of res.json()).
OrderAnswers == {"ok", "refused", "busy", "auth", "raise"}

\* res_data.get("Code") == 0
OrderPlacedAlways(answer) == answer \in OrderAnswers
OrderPlaced(answer) == answer = "ok"

\* What the attempt is recorded as in attempts, by the platform's answer.
OrderEntry(answer) ==
    CASE answer = "ok" -> "success"
      [] answer = "refused" -> "rejected"
      [] answer = "busy" -> "order_busy"
      [] answer = "auth" -> "order_auth"
      [] answer = "raise" -> "order_error"

\* One pass of the for loop over the candidates, or its end.
TryCandidate ==
    /\ ipc = "loop"
    /\ UNCHANGED <<cfg, candidates, start_balance, signals, scanVars, pureVars>>
    /\ IF index >= candidates.n \/ LoopBreaks(success_count, busy_counter)
       THEN /\ ipc' = "done"
            /\ UNCHANGED <<index, success_count, busy_counter,
                           current_balance, attempts, spent, last_order>>
       ELSE
         /\ index' = index + 1
         /\ ipc' = "loop"
         /\ \E look \in {"busy", "raise", "none", "detail"} :
            \E lowest \in IF look = "detail" THEN LivePrices ELSE {0} :
            \E listed \in IF look = "detail" /\ candidates.src = "whitelist"
                          THEN ListedPrices ELSE {0} :
            \E bid \in IF look = "detail" /\ candidates.src = "api"
                       THEN BidPrices ELSE {0} :
            \E answer \in IF look = "detail" /\ ~cfg.test_mode
                          THEN OrderAnswers ELSE {"ok"} :
              LET item == [listed |-> listed, bid |-> bid]
                  target == TargetPrice(candidates.src, item, lowest)
              IN CASE look = "busy" ->
                        /\ busy_counter' = busy_counter + 1
                        /\ attempts' = Append(attempts, "busy")
                        /\ UNCHANGED <<success_count, current_balance,
                                       spent, last_order>>
                   [] look = "raise" ->
                        \* get_item_details_from_uu returned a bare None:
                        \* the tuple unpacking raises, the outer except
                        \* clause logs it and continues.
                        /\ attempts' = Append(attempts, "error")
                        /\ UNCHANGED <<busy_counter, success_count,
                                       current_balance, spent, last_order>>
                   [] look = "none" ->
                        /\ busy_counter' = 0
                        /\ attempts' = Append(attempts, "nodetail")
                        /\ UNCHANGED <<success_count, current_balance,
                                       spent, last_order>>
                   [] look = "detail" ->
                        /\ busy_counter' = 0
                        /\ IF ~PreTradeOk(target, lowest, current_balance)
                           THEN /\ attempts' = Append(attempts, "gate")
                                /\ UNCHANGED <<success_count,
                                               current_balance, spent,
                                               last_order>>
                           ELSE /\ attempts' =
                                       Append(attempts, OrderEntry(answer))
                                /\ last_order' =
                                       [price |-> target, lowest |-> lowest,
                                        listed |-> listed, bid |-> bid,
                                        balance |-> current_balance,
                                        answer |-> IF cfg.test_mode
                                                   THEN "simulated"
                                                   ELSE answer]
                                /\ IF cfg.test_mode \/ OrderPlaced(answer)
                                   THEN /\ success_count' = success_count + 1
                                        /\ current_balance' =
                                               current_balance - target
                                        /\ spent' = spent + target
                                   ELSE UNCHANGED <<success_count,
                                                    current_balance, spent>>

NextInvest ==
    \/ StartInvestment
    \/ TryCandidate

SpecInvest == InitInvest /\ [][NextInvest]_vars

(***************************************************************************)
(* Specification SpecGate: the price test of execute_investment applied to *)
(* one target price and one live lowest price, both in cents.              *)
(***************************************************************************)
GateTargets == {10000, 10400, 10500, 10600, 11000}
GateLive == {9900, 10000, 10395, 10396, 10400, 10499, 10500, 10501, 10600,
             10605, 11000}

InitGate ==
    /\ ScanIdle
    /\ InvestIdle
    /\ NotGateIdle
    /\ quote \in [target : GateTargets, lowest : GateLive]
    /\ verdict = "none"

CheckPrice ==
    /\ verdict = "none"
    /\ verdict' = IF BelowMarket(quote.target, quote.lowest) THEN "pass"
                  ELSE "reject"
    /\ UNCHANGED <<quote, scanVars, investVars, notGate>>

NextGate == CheckPrice

SpecGate == InitGate /\ [][NextGate]_vars

(***************************************************************************)
(* Specification SpecFilter: one record in the loop of run_scan.  Rates    *)
(* are in per cent, the daily rent in cents, the volatility and the lease  *)
(* ratio in per cent.  The record, what the two lookups would return for   *)
(* it and the batch average are fixed at the start; a stage that is not    *)
(* reached never reads them.                                               *)
(***************************************************************************)
MIN_DAILY_RENT == 50               \* min_daily_rent, 0.5 yuan
UPTREND_MIN_RENT == 40             \* 0.40 yuan for a record in an uptrend
MIN_LEASE_COUNT == 30              \* min_lease_count
MIN_LEASE_RATIO == 15              \* min_lease_ratio, 0.15
MAX_VOLATILITY == 25               \* max_lease_volatility, 0.25
MIN_PRICE_DROP_STEADY == -30       \* min_price_drop_steady
MIN_PRICE_DROP_AGGRESSIVE == -55   \* min_price_drop_aggressive
VOLATILITY_UNKNOWN == 99900        \* volatility = 999.0

Rates90 == {-60, -40, -25, -12, -5, 0, 2}
Rates30 == {-1, 1}
Rates7 == {-6, -3, 1}
LeaseNums == {20, 40, 60, 90}
SellNums == {0, 100, 600}
DailyRents == {30, 42, 60, 90}
Volatilities == {Unknown, 10, 20, 30}
BatchAverages == {1, 30, 50}

StageOrder == <<"floor", "decline", "detail", "rent", "count", "ratio",
                "stability", "tier">>

\* The stage after stage s (the end after the last).
Succ(s) ==
    LET i == CHOOSE k \in 1 .. Len(StageOrder) : StageOrder[k] = s
    IN IF i = Len(StageOrder) THEN "end" ELSE StageOrder[i + 1]

\* `continue` after a failed test, the next statement otherwise.
AdvanceAnyway(s, failed) == Succ(s)
Advance(s, failed) == IF failed THEN "end" ELSE Succ(s)

\* A. rate_90 < min_price_drop, by the type of asset.
FailsFloor(r) ==
    r.rate_90 < (IF r.heavy THEN MIN_PRICE_DROP_AGGRESSIVE
                 ELSE MIN_PRICE_DROP_STEADY)

\* B. still declining.
FailsDecline(r) == r.rate_90 < -15 /\ r.rate_7 < -5

\* C. is_uptrend
IsUptrend(r) == r.rate_30 > 0 /\ r.rate_7 > 0

\* daily_rent < current_min_rent
FailsRent(r, d) ==
    d.daily_rent < (IF IsUptrend(r) THEN UPTREND_MIN_RENT
                    ELSE MIN_DAILY_RENT)

\* lease_num < MIN_LEASE_COUNT
FailsCountNever(d) == FALSE
FailsCount(d) == d.lease_num < MIN_LEASE_COUNT

\* lease_ratio < pct / 100 and lease_ratio > pct / 100, where lease_ratio
\* is lease_num / sell_num, or 0 when nothing is on sale.
RatioBelow(d, pct) ==
    IF d.sell_num > 0 THEN d.lease_num * 100 < pct * d.sell_num
    ELSE 0 < pct
RatioAbove(d, pct) ==
    IF d.sell_num > 0 THEN d.lease_num * 100 > pct * d.sell_num
    ELSE 0 > pct
FailsRatioNever(d) == FALSE
FailsRatio(d) == RatioBelow(d, MIN_LEASE_RATIO)

\* The stability test: a volatility of None marks the record and lets it
\* pass; a known one is compared with MAX_VOLATILITY.
FailsStabilityStrict(v) == v = Unknown \/ v > MAX_VOLATILITY
FailsStability(v) == v # Unknown /\ v > MAX_VOLATILITY

\* relative_heat > tenths / 10, relative_heat = lease_num / max(1, avg)
HeatAbove(d, avg, tenths) == d.lease_num * 10 > tenths * Max(1, avg)

\* The tier of a record that passed every filter.
TierPromotesUnknown(r, d, v, avg) ==
    IF v # Unknown /\ v < 15 /\ HeatAbove(d, avg, 15) /\ d.daily_rent > 80
          /\ r.rate_90 > -10
    THEN "S"
    ELSE IF IsUptrend(r) /\ HeatAbove(d, avg, 8) THEN "A"
    ELSE IF RatioAbove(d, 10) \/ (r.rate_90 < -20 /\ r.rate_7 > -2) THEN "B"
    ELSE "C"
Tier(r, d, v, avg) ==
    LET volatility_unknown == v = Unknown
        vol == IF volatility_unknown THEN VOLATILITY_UNKNOWN ELSE v
        t == IF ~volatility_unknown /\ vol < 15 /\ HeatAbove(d, avg, 15)
                  /\ d.daily_rent > 80 /\ r.rate_90 > -10
             THEN "S"
             ELSE IF IsUptrend(r) /\ HeatAbove(d, avg, 8) THEN "A"
             ELSE IF RatioAbove(d, 10)
                        \/ (r.rate_90 < -20 /\ r.rate_7 > -2) THEN "B"
             ELSE "C"
    IN IF volatility_unknown THEN "C" ELSE t

\* The entry run_scan appends to final_whitelist.
Entry(r, d, v, avg) ==
    [tier |-> Tier(r, d, v, avg),
     lease_num |-> d.lease_num, sell_num |-> d.sell_num,
     daily_rent |-> d.daily_rent,
     lease_volatility |-> v, volatility_unknown |-> (v = Unknown),
     sell_price_rate_90 |-> r.rate_90, sell_price_rate_30 |-> r.rate_30,
     sell_price_rate_7 |-> r.rate_7, is_uptrend |-> IsUptrend(r)]

InitFilter ==
    /\ ScanIdle
    /\ InvestIdle
    /\ NotFilterIdle
    /\ rank_item \in [rate_90 : Rates90, rate_30 : Rates30, rate_7 : Rates7,
                       heavy : BOOLEAN]
    /\ details \in {NoDetails} \cup
                    [lease_num : LeaseNums, sell_num : SellNums,
                     daily_rent : DailyRents, found : {TRUE}]
    /\ volatility \in Volatilities
    /\ batch_lease_avg \in BatchAverages
    /\ stage = "floor" /\ trace = <<>> /\ outcome = "none"
    /\ whitelist = <<>>

\* A test of the loop body: evaluated, and the record dropped if it fails.
Test(s, failed) ==
    /\ trace' = Append(trace, s)
    /\ stage' = Advance(s, failed)
    /\ outcome' = IF failed THEN "rejected" ELSE outcome
    /\ UNCHANGED <<rank_item, details, volatility, batch_lease_avg,
                   whitelist, scanVars, investVars, notFilter>>

TrendFloor ==
    /\ stage = "floor"
    /\ Test("floor", FailsFloor(rank_item))

DeclineCheck ==
    /\ stage = "decline"
    /\ Test("decline", FailsDecline(rank_item))

\* check_state() and get_item_details: the lookup is made unless the state
\* machine refuses; without details the record is skipped.
LookupDetails ==
    /\ stage = "detail"
    /\ \E allowed \in BOOLEAN :
         IF ~allowed
         THEN /\ stage' = "end" /\ outcome' = "blocked"
              /\ UNCHANGED trace
         ELSE /\ trace' = Append(trace, "detail")
              /\ stage' = Advance("detail", ~details.found)
              /\ outcome' = IF details.found THEN outcome ELSE "nodetail"
    /\ UNCHANGED <<rank_item, details, volatility, batch_lease_avg,
                   whitelist, scanVars, investVars, notFilter>>

RentFloor ==
    /\ stage = "rent"
    /\ Test("rent", FailsRent(rank_item, details))

LeaseCount ==
    /\ stage = "count"
    /\ Test("count", FailsCount(details))

LeaseRatio ==
    /\ stage = "ratio"
    /\ Test("ratio", FailsRatio(details))

\* get_lease_stability and the test of its result.
Stability ==
    /\ stage = "stability"
    /\ Test("stability", FailsStability(volatility))

\* The tiering and final_whitelist.append.
Tiering ==
    /\ stage = "tier"
    /\ trace' = Append(trace, "tier")
    /\ stage' = "end"
    /\ outcome' = "kept"
    /\ whitelist' = Append(whitelist, Entry(rank_item, details, volatility,
                                            batch_lease_avg))
    /\ UNCHANGED <<rank_item, details, volatility, batch_lease_avg,
                   scanVars, investVars, notFilter>>

NextFilter ==
    \/ TrendFloor
    \/ DeclineCheck
    \/ LookupDetails
    \/ RentFloor
    \/ LeaseCount
    \/ LeaseRatio
    \/ Stability
    \/ Tiering

SpecFilter == InitFilter /\ [][NextFilter]_vars

(***************************************************************************)
(* Specification SpecHunt: one record in the loop of ItemHunter.hunt.      *)
(* The yield and the rates are in per cent, the premium of the UU price    *)
(* over the BUFF price in per cent; chart is what calculate_stability_score*)
(* makes of the series ("stable": a score of 80 or more).                  *)
(***************************************************************************)
MIN_ROI == 25                \* min_roi, 0.25
MAX_ROI == 60                \* max_roi, 0.60
MIN_SELL_NUM == 100          \* min_on_sale
MIN_LEASE_NUM == 30          \* min_lease_num
MAX_PRICE_PREMIUM == 15      \* max_price_premium, 0.15
MIN_TREND_90D == -10         \* min_trend_90d

\* analyze_item: the stage that rejects the record, or "ok".
analyze_item(r) ==
    LET lease == IF r.detail_lease # NoDetail THEN r.detail_lease
                 ELSE r.lease_num
    IN CASE r.roi = 0 -> "roi_missing"
         [] ~(MIN_ROI <= r.roi /\ r.roi <= MAX_ROI) -> "roi"
         [] r.rate_90 < MIN_TREND_90D -> "trend"
         [] r.sell_num < MIN_SELL_NUM -> "sell_num"
         [] lease < MIN_LEASE_NUM -> "lease_num"
         [] r.sell_num > 0 /\ lease * 10 < r.sell_num -> "ratio"
         [] r.chart # "stable" -> "stability"
         [] r.premium > MAX_PRICE_PREMIUM -> "premium"
         [] r.rate_7 < -3 \/ r.rate_7 > 3 -> "rate_7"
         [] OTHER -> "ok"

InitHunt ==
    /\ ScanIdle
    /\ InvestIdle
    /\ NotHuntIdle
    /\ hunt_item \in [has_id : BOOLEAN, roi : {0, 20, 40, 70},
                       rate_90 : {-20, 0}, sell_num : {50, 200, 500},
                       lease_num : {10, 40},
                       detail_lease : {NoDetail, 10, 40},
                       chart : {"none", "volatile", "stable"},
                       premium : {10, 20}, rate_7 : {-4, 0, 4}]
    /\ hunt_calls = <<>>
    /\ hunt_reason = "none"

\* One pass of the loop of hunt: the two lookups, then analyze_item.  A
\* lookup that fails returns None (detail_lease = NoDetail, chart "none").
HuntRecord ==
    /\ hunt_reason = "none"
    /\ hunt_calls' = IF hunt_item.has_id THEN <<"detail", "chart">>
                     ELSE <<>>
    /\ hunt_reason' =
           analyze_item(IF hunt_item.has_id THEN hunt_item
                        ELSE [hunt_item EXCEPT !.detail_lease = NoDetail,
                                               !.chart = "none"])
    /\ UNCHANGED <<hunt_item, scanVars, investVars, notHunt>>

NextHunt == HuntRecord

SpecHunt == InitHunt /\ [][NextHunt]_vars

(***************************************************************************)
(* Specification SpecSort: the end of run_scan.  final_whitelist holds the *)
(* accepted entries in the order of their acceptance (templateId numbers   *)
(* them in that order) and is sorted in place by tier weight.              *)
(***************************************************************************)
Tiers == {"S", "A", "B", "C"}

\* tier_weight
tier_weight(t) ==
    CASE t = "S" -> 4 [] t = "A" -> 3 [] t = "B" -> 2 [] OTHER -> 1

\* The entries of q whose weight is w, in the order they have in q.
OfWeight(q, w) ==
    LET Keep(e) == tier_weight(e.tier) = w IN SelectSeq(q, Keep)

Reverse(q) == [i \in 1 .. Len(q) |-> q[Len(q) + 1 - i]]

\* list.sort(key = weight, reverse = True): by weight descending, entries
\* of equal weight in their original order (the sort is stable, also with
\* reverse).
SortAscendingReversed(q) ==
    Reverse(OfWeight(q, 1) \o OfWeight(q, 2) \o OfWeight(q, 3)
               \o OfWeight(q, 4))
SortByTier(q) ==
    OfWeight(q, 4) \o OfWeight(q, 3) \o OfWeight(q, 2) \o OfWeight(q, 1)

InitSort ==
    /\ ScanIdle
    /\ InvestIdle
    /\ NotSortIdle
    /\ \E n \in 0 .. MaxAccepted :
       \E tiers \in [1 .. n -> Tiers] :
         final_whitelist = [i \in 1 .. n |->
                               [tier |-> tiers[i], templateId |-> i]]
    /\ sorted = FALSE

SortWhitelist ==
    /\ ~sorted
    /\ final_whitelist' = SortByTier(final_whitelist)
    /\ sorted' = TRUE
    /\ UNCHANGED <<scanVars, investVars, notSort>>

NextSort == SortWhitelist

SpecSort == InitSort /\ [][NextSort]_vars

(***************************************************************************)
(* Specification SpecDecide: the two rent-or-sell decisions on one holding.*)
(* Prices are in yuan, the yield (apy) in per cent; pnl_ratio, a quotient  *)
(* by buy_price > 0, is compared in per cent by cross-multiplication.      *)
(* The decisions are "sell", "rent" and "hold".                            *)
(***************************************************************************)
\* current_price
CurrentPrice(h) ==
    IF h.yyyp_sell_price > 0 THEN h.yyyp_sell_price ELSE h.market_price

\* pnl_ratio < pct / 100, for buy > 0
PnlBelow(cur, buy, pct) == (cur - buy) * 100 < pct * buy

\* The four quadrants, the same text in both plugins.
Quadrants(cur, buy, apy) ==
    IF PnlBelow(cur, buy, -15) THEN "sell"
    ELSE IF ~PnlBelow(cur, buy, -15) /\ PnlBelow(cur, buy, -5) /\ apy > 20
    THEN "rent"
    ELSE IF ~PnlBelow(cur, buy, -15) /\ PnlBelow(cur, buy, -5) /\ apy <= 20
    THEN "sell"
    ELSE IF PnlBelow(cur, buy, 10) THEN "rent"
    ELSE IF apy > 60 THEN "rent"
    ELSE "sell"

\* UUAutoLeaseItem._make_rent_or_sell_decision_for_lease
DecisionForLease(h) ==
    IF h.buy_price <= 0 THEN "rent"
    ELSE Quadrants(CurrentPrice(h), h.buy_price, h.apy)

\* UUAutoSellItem._make_rent_or_sell_decision
DecisionForSell(h) ==
    IF CurrentPrice(h) <= 0 THEN "hold"
    ELSE IF h.buy_price <= 0
    THEN (IF h.apy > 30 THEN "rent" ELSE "sell")
    ELSE Quadrants(CurrentPrice(h), h.buy_price, h.apy)

InitDecide ==
    /\ ScanIdle
    /\ InvestIdle
    /\ NotDecideIdle
    /\ holding \in [buy_price : {0, 100},
                     market_price : {0, 80, 90, 100, 105, 120},
                     yyyp_sell_price : {0, 84, 110},
                     apy : {0, 20, 25, 35, 60, 70}]
    /\ lease_decision = "none"
    /\ sell_decision = "none"

Decide ==
    /\ lease_decision = "none"
    /\ lease_decision' = DecisionForLease(holding)
    /\ sell_decision' = DecisionForSell(holding)
    /\ UNCHANGED <<holding, scanVars, investVars, notDecide>>

NextDecide == Decide

SpecDecide == InitDecide /\ [][NextDecide]_vars

(***************************************************************************)
(* Specification SpecBaseline: the two get_rank_list calls of run_scan     *)
(* (filter_steady, then filter_heavy) and the baseline each of them        *)
(* leaves in self.batch_lease_avg.  A record is its yyyp_lease_num, 0      *)
(* standing for a field that is missing, None or 0.                        *)
(***************************************************************************)
MaxRank == 2
DEFAULT_LEASE_AVG == 30      \* self.batch_lease_avg = 30
LeaseCounts == {0, 20, 40, 60}

RankLists == UNION {[1 .. n -> LeaseCounts] : n \in 0 .. MaxRank}

RECURSIVE SumSeq(_)
SumSeq(q) == IF q = <<>> THEN 0 ELSE Head(q) + SumSeq(Tail(q))

Truthy(c) == c # 0

\* self.batch_lease_avg when get_rank_list returns all_items, `old` being
\* its value before the call.
BatchLeaseAvg(all_items, old) ==
    IF all_items = <<>> THEN old
    ELSE LET lease_counts == SelectSeq(all_items, Truthy) IN
         IF lease_counts # <<>>
         THEN [sum |-> SumSeq(lease_counts), n |-> Len(lease_counts)]
         ELSE [sum |-> DEFAULT_LEASE_AVG, n |-> 1]

InitBaseline ==
    /\ ScanIdle
    /\ InvestIdle
    /\ NotBaseIdle
    /\ list_steady \in RankLists
    /\ list_heavy \in RankLists
    /\ lease_avg = NoAverage
    /\ fetched = 0

\* list_steady = self.get_rank_list(filter_steady)
GetRankListSteady ==
    /\ fetched = 0
    /\ lease_avg' = BatchLeaseAvg(list_steady, lease_avg)
    /\ fetched' = 1
    /\ UNCHANGED <<list_steady, list_heavy, scanVars, investVars, notBase>>

\* list_heavy = self.get_rank_list(filter_heavy)
GetRankListHeavy ==
    /\ fetched = 1
    /\ lease_avg' = BatchLeaseAvg(list_heavy, lease_avg)
    /\ fetched' = 2
    /\ UNCHANGED <<list_steady, list_heavy, scanVars, investVars, notBase>>

NextBaseline ==
    \/ GetRankListSteady
    \/ GetRankListHeavy

SpecBaseline == InitBaseline /\ [][NextBaseline]_vars

(***************************************************************************)
(* Properties.                                                             *)
(***************************************************************************)
DataKinds == {"rank", "detail", "detail_fb", "chart"}
DataOps == {"rank", "detail", "chart"}
Successes(n) == Cardinality({j \in 1 .. n : attempts[j] = "success"})
Increasing(q) == \A k \in 1 .. (Len(q) - 1) : q[k + 1] > q[k]

\* C1: in execute_investment, once two consecutive candidates have been
\* classified busy no further candidate is attempted (the second busy one
\* is the last entry of the run's attempts), and success_count at the end
\* of the run is the number of orders that succeeded before the second busy
\* answer.
C1_BreakerEndsRun ==
    \A i \in 1 .. (Len(attempts) - 1) :
        (attempts[i] = "busy" /\ attempts[i + 1] = "busy") =>
            /\ Len(attempts) = i + 1
            /\ busy_counter >= MAX_BUSY_COUNT
            /\ ipc = "done" => success_count = Successes(i)

\* C1, witness: a run that ended on two busy answers in a row after an order
\* had succeeded, with candidates left untried.
C1_Witness ==
    /\ ipc = "done" /\ Len(attempts) >= 3
    /\ attempts[Len(attempts)] = "busy"
    /\ attempts[Len(attempts) - 1] = "busy"
    /\ success_count >= 1
    /\ index < candidates.n

\* C2: once self.state is INVALID it stays INVALID; a check_state() call
\* made in INVALID returns False and sends no request; and a bind attempt
\* of the state machine answered with HTTP 401 or 403 leaves the state
\* INVALID.
C2_InvalidIsTerminal ==
    /\ [][state = "INVALID" => state' = "INVALID"]_vars
    /\ []((ev.op = "check_state" /\ ev.before = "INVALID") =>
              (ev.ret = "false" /\ sent = <<>> /\ ev.path = <<>>))
    /\ []((ev.op = "check_state" /\ ev.ans \in {"h401", "h403"}) =>
              state = "INVALID")

\* C2, witness: check_state() was called with the state already INVALID.
C2_Witness ==
    /\ ev.op = "check_state" /\ ev.before = "INVALID"
    /\ state = "INVALID" /\ ev.ret = "false"

C4_Data401KeepsBound ==
    [][ /\ (state = "BOUND" /\ ev'.op \in DataOps) => state' = "BOUND"
        /\ (state # "INVALID" /\ state' = "INVALID") =>
               (ev'.op = "check_state" /\ ev'.ans \in {"h401", "h403"}) ]_vars

\* C4, witness: three 401 answers in one get_item_details call, state Bound.
C4_Witness ==
    /\ state = "BOUND" /\ burst.kind = "detail" /\ burst.n401 >= 3
    /\ ev.op = "detail" /\ Is401(ev.ans)

\* C5: a check_state() call made in Cooldown before the timer has expired
\* returns False, sends nothing and leaves the state Cooldown; one made
\* after the timer has expired sets the state to Unbound, then to Binding,
\* and sends the bind request in that same call.
C5_CooldownGate ==
    (ev.op = "check_state" /\ ev.before = "COOLDOWN") =>
        IF ev.left > 0
        THEN /\ ev.ret = "false" /\ sent = <<>>
             /\ ev.path = <<>> /\ state = "COOLDOWN"
        ELSE /\ Len(ev.path) = 3
             /\ ev.path[1] = "UNBOUND" /\ ev.path[2] = "BINDING"
             /\ Len(sent) = 1 /\ sent[1].kind = "bind_sm"
             /\ sent[1].st = "BINDING"

\* C5, witness: the first check_state() after the timer expired has bound.
C5_Witness ==
    /\ ev.op = "check_state" /\ ev.before = "COOLDOWN" /\ ev.left = 0
    /\ state = "BOUND" /\ ev.ret = "true"

\* C6 as stated: every request to a data endpoint (ranked list, item
\* detail, historical series) is sent while the state is Bound.
C6_DataOnlyWhenBound ==
    \A i \in 1 .. Len(sent) :
        sent[i].kind \in DataKinds => sent[i].st = "BOUND"

\* C7 as stated: after a data request answered with a rate-limit signal
\* (HTTP 429 or business code 429) the state is Cooldown.
C7_DataLimitCools ==
    (ev.op \in DataOps /\ ev.ans \in {"h429", "c429"}) => state = "COOLDOWN"

\* C8 as stated: one call of get_rank_list, get_item_details or
\* get_lease_stability sends at most one re-bind request in reaction to 401
\* answers.
C8_OneRebindPerBurst ==
    burst.rebinds <= 1

\* C9 as stated: every outbound request is sent at least the shortest
\* pacing sleep of the code (0.5 s) after the previous one.
C9_EveryRequestPaced ==
    \A i \in 1 .. Len(sent) : sent[i].gap >= FIRST_SLEEP

SentOrder == last_order.answer \notin {"none", "simulated"}
LastAttempt == attempts[Len(attempts)]

\* C13 as stated: a rate-limit or system-busy answer raises busy_counter
\* whichever call it answers, the live-price lookup or the order call: after
\* such an answer busy_counter is at least 1.
C13_BusyAlwaysCounts ==
    (Len(attempts) > 0 /\ LastAttempt \in {"busy", "order_busy"}) =>
        busy_counter >= 1

\* C14 as stated: an order call answered with the re-authentication-required
\* code ends the run; no later candidate is attempted.
C14_AuthExpiredEndsRun ==
    \A i \in 1 .. Len(attempts) :
        attempts[i] = "order_auth" => Len(attempts) = i

\* C15: success_count never exceeds max_orders_per_run, and the order that
\* brings it to the cap is the last attempt of the run, whatever the value
\* of busy_counter.
C15_OrderCap ==
    /\ success_count <= cfg.max_orders
    /\ \A i \in 1 .. Len(attempts) :
          Successes(i) >= cfg.max_orders => Len(attempts) = i
    /\ success_count >= cfg.max_orders => ~ENABLED (ipc' = "loop" /\ TryCandidate)

\* C15, witness: the run ended on the cap with candidates left untried.
C15_Witness ==
    /\ ipc = "done" /\ success_count = cfg.max_orders
    /\ Len(attempts) >= 2 /\ LastAttempt = "success"
    /\ index < candidates.n

\* C16 as stated: the number of candidates a live lookup is attempted for
\* never exceeds the configured maximum of attempts per run
\* (max_whitelist_try), whichever source the candidates came from.
C16_AttemptsCapped ==
    Len(attempts) <= MAX_WHITELIST_TRY

\* C17: a successful order leaves busy_counter at 0 and raises success_count
\* by exactly 1; a candidate that fails a pre-trade check or whose order is
\* rejected leaves success_count and the tracked balance unchanged, does not
\* raise busy_counter and leaves the loop running.
C17_OutcomeFrame ==
    [][ attempts' # attempts =>
          LET x == attempts'[Len(attempts')] IN
          /\ x = "success" =>
                /\ busy_counter' = 0
                /\ success_count' = success_count + 1
          /\ x \in {"gate", "rejected"} =>
                /\ success_count' = success_count
                /\ current_balance' = current_balance
                /\ busy_counter' <= busy_counter
                /\ ipc' = "loop" /\ index' = index + 1 ]_vars

\* C17, witness: a success, then a rejected order, then a further attempt.
C17_Witness ==
    /\ Len(attempts) >= 3
    /\ attempts[1] = "success" /\ attempts[2] = "rejected"
    /\ attempts[3] = "gate"
    /\ success_count = 1 /\ busy_counter = 0

\* C18 as stated: every order handed to the platform is preceded by a
\* trade-intent record of it written to storage.
C18_WriteAhead ==
    SentOrder =>
        \E i \in 1 .. Len(signals) : signals[i].price = last_order.price

\* C19 as stated: the price of an order sent to the platform is computed
\* from the live price of the same pass (times a discount ratio) or from a
\* competing-offer price; it is never the price stored with the candidate.
C19_PriceFromLive ==
    SentOrder =>
        /\ last_order.price \in {Pct(last_order.lowest, 90),
                                 Pct(last_order.lowest, 92),
                                 Pct(last_order.bid, 98)}
        /\ last_order.listed > 0 => last_order.price # last_order.listed

\* C20: an order is placed only when the tracked balance is at least its
\* price; the tracked balance is never negative and the sum of the prices
\* of the orders placed never exceeds the balance read at the start.
C20_BalanceCovers ==
    /\ last_order # NoOrder => last_order.balance >= last_order.price
    /\ current_balance >= 0
    /\ spent <= start_balance
    /\ current_balance = start_balance - spent

\* C20, witness: two orders placed, the balance left below the price band.
C20_Witness ==
    /\ success_count >= 2 /\ spent > 0
    /\ current_balance <= MIN_PRICE
    /\ LastAttempt = "gate"

TrailingFails ==
    CHOOSE n \in 0 .. Len(lookups) :
        /\ \A k \in (Len(lookups) - n + 1) .. Len(lookups) :
              lookups[k] = "fail"
        /\ n < Len(lookups) => lookups[Len(lookups) - n] = "ok"

\* C11: run_scan's counter of failed detail lookups is the number of failed
\* lookups since the last successful one (every success resets it to 0);
\* the scan stops when 5 lookups in a row have failed and, short of that,
\* goes through the whole batch.
C11_FailureRun ==
    /\ consecutive_401_errors = TrailingFails
    /\ consecutive_401_errors <= MAX_401_ERRORS
    /\ consecutive_401_errors = MAX_401_ERRORS => pc = "done"
    /\ (pc = "done" /\ nItems > 0
          /\ consecutive_401_errors < MAX_401_ERRORS) => idx = nItems

\* C11, witness: the scan stopped on 5 failed lookups in a row, records
\* left, after an earlier failure that a success had cleared.
C11_Witness ==
    /\ pc = "done" /\ consecutive_401_errors = MAX_401_ERRORS
    /\ idx < nItems
    /\ Len(lookups) > MAX_401_ERRORS + 1
    /\ lookups[1] = "fail" /\ lookups[2] = "ok"

\* C12 as stated: when check_state() refuses a record (state Invalid or
\* Cooldown) the scan ends there; no later record of the batch is examined.
C12_BlockedScanEnds ==
    (ev.op = "check_state" /\ ev.ret = "false") => pc = "done"

\* C21 as stated: the price test rejects a target price that exceeds the
\* live price by more than the tolerance of 1% and lets pass one within it
\* (105.00 against 100.00 fails, 105.00 against 104.99 passes).
C21_ToleranceGate ==
    verdict # "none" =>
        (verdict = "reject" <=> quote.target * 100 > quote.lowest * 101)

\* C22: every order handed to the platform has its price inside the band
\* min_price .. max_price, whatever the source of the candidates.
C22_PriceBand ==
    SentOrder =>
        MIN_PRICE <= last_order.price /\ last_order.price <= MAX_PRICE

\* C22, witness: an order from a whitelist candidate at its stored price,
\* after a candidate of the same run was stopped by the gate.
C22_Witness ==
    /\ SentOrder /\ candidates.src = "whitelist"
    /\ last_order.price = last_order.listed
    /\ \E i \in 1 .. Len(attempts) : attempts[i] = "gate"

\* The test of stage s on the record under analysis.
Fails(s) ==
    CASE s = "floor" -> FailsFloor(rank_item)
      [] s = "decline" -> FailsDecline(rank_item)
      [] s = "detail" -> ~details.found
      [] s = "rent" -> FailsRent(rank_item, details)
      [] s = "count" -> FailsCount(details)
      [] s = "ratio" -> FailsRatio(details)
      [] s = "stability" -> FailsStability(volatility)
      [] s = "tier" -> FALSE
HeatAtLeast(e, tenths) == e.lease_num * 10 >= tenths * Max(1, batch_lease_avg)

\* C23: the stages of run_scan are evaluated in the fixed order; a record
\* dropped by a stage was dropped by the first stage it fails, and once it
\* is dropped nothing more is evaluated or looked up for it.
C23_ShortCircuit ==
    /\ Len(trace) <= Len(StageOrder)
    /\ \A k \in 1 .. Len(trace) : trace[k] = StageOrder[k]
    /\ \A k \in 1 .. (Len(trace) - 1) : ~Fails(trace[k])
    /\ outcome \in {"rejected", "nodetail"} =>
          /\ Fails(trace[Len(trace)])
          /\ stage = "end"
    /\ stage = "end" => ~ENABLED NextFilter

\* C23, witness: a record dropped by the trend floor that would also fail
\* the leased-count floor and the stability test; neither lookup was made.
C23_Witness ==
    /\ outcome = "rejected" /\ trace = <<"floor">>
    /\ details.found /\ FailsCount(details) /\ FailsStability(volatility)

\* C25 as stated: a record whose rent series cannot be obtained, or is too
\* short, is rejected by the stability stage and is never in the whitelist.
C25_NoHistoryRejected ==
    \A i \in 1 .. Len(whitelist) : ~whitelist[i].volatility_unknown

\* C26 as stated: the trend filter drops every record whose 90-day change
\* is below the floor, and every record whose 90-day and 7-day changes are
\* both negative.
C26_TrendFilter ==
    /\ (Len(trace) >= 1 /\ FailsFloor(rank_item)) =>
          outcome = "rejected" /\ Len(trace) = 1
    /\ (Len(trace) >= 2 /\ rank_item.rate_90 < 0 /\ rank_item.rate_7 < 0) =>
          outcome = "rejected" /\ Len(trace) = 2

\* C27: every entry of the whitelist has at least MIN_LEASE_COUNT units
\* leased and a leased/offered ratio of at least MIN_LEASE_RATIO; a record
\* with nothing on offer does not get past the ratio test.
C27_LeaseFloors ==
    /\ \A i \in 1 .. Len(whitelist) :
          /\ whitelist[i].lease_num >= MIN_LEASE_COUNT
          /\ whitelist[i].sell_num > 0
          /\ whitelist[i].lease_num * 100
                >= MIN_LEASE_RATIO * whitelist[i].sell_num
    /\ (details.sell_num = 0 /\ Len(trace) >= 6) =>
          outcome = "rejected" /\ Len(trace) = 6

\* C27, witness: an entry whose ratio is exactly MIN_LEASE_RATIO.
C27_Witness ==
    /\ Len(whitelist) = 1
    /\ whitelist[1].lease_num * 100 = MIN_LEASE_RATIO * whitelist[1].sell_num

\* C28 as stated: an entry of tier S has a known volatility below 0.15, a
\* relative heat above 1.5 and a 90-day change that is not negative.
C28_TierS ==
    \A i \in 1 .. Len(whitelist) :
        whitelist[i].tier = "S" =>
            /\ ~whitelist[i].volatility_unknown
            /\ whitelist[i].lease_volatility < 15
            /\ whitelist[i].lease_num * 10 > 15 * Max(1, batch_lease_avg)
            /\ whitelist[i].sell_price_rate_90 >= 0

\* C29 as stated: an entry with known volatility that is not of tier S, is
\* in an uptrend and has a relative heat of at least 0.8 is of tier A.
C29_TierA ==
    \A i \in 1 .. Len(whitelist) :
        (/\ ~whitelist[i].volatility_unknown
         /\ whitelist[i].tier # "S"
         /\ whitelist[i].is_uptrend
         /\ HeatAtLeast(whitelist[i], 8)) => whitelist[i].tier = "A"

\* C30: an entry whose volatility is unknown is of tier C.
C30_UnknownIsC ==
    \A i \in 1 .. Len(whitelist) :
        whitelist[i].volatility_unknown => whitelist[i].tier = "C"

\* C30, witness: an entry with unknown volatility, in an uptrend, with a
\* relative heat above 1.5 and a rent above 0.8 yuan.
C30_Witness ==
    /\ Len(whitelist) = 1
    /\ whitelist[1].volatility_unknown /\ whitelist[1].is_uptrend
    /\ whitelist[1].daily_rent > 80
    /\ HeatAbove(details, batch_lease_avg, 15)

\* C24 as stated: in hunt no item-detail and no historical-series request
\* is made for a record that analyze_item rejects on its yield, its 90-day
\* trend or its on-sale count.
C24_NoLookupOnEarlyReject ==
    hunt_reason \in {"roi_missing", "roi", "trend", "sell_num"} =>
        hunt_calls = <<>>

\* C31: in the whitelist run_scan returns no entry of a lower tier comes
\* before one of a higher tier, entries of the same tier are in the order
\* of their acceptance, and the sort neither drops nor adds an entry.
C31_SortedByTier ==
    sorted =>
        /\ \A i, j \in 1 .. Len(final_whitelist) :
              i < j =>
                 /\ tier_weight(final_whitelist[i].tier)
                       >= tier_weight(final_whitelist[j].tier)
                 /\ final_whitelist[i].tier = final_whitelist[j].tier =>
                       final_whitelist[i].templateId
                          < final_whitelist[j].templateId
        /\ {final_whitelist[i].templateId :
               i \in 1 .. Len(final_whitelist)} = 1 .. Len(final_whitelist)

\* C31, witness: a sorted whitelist of four entries in which two entries of
\* tier S, accepted third and fourth, lead, and two of tier B follow.
C31_Witness ==
    /\ sorted /\ Len(final_whitelist) = 4
    /\ final_whitelist[1] = [tier |-> "S", templateId |-> 3]
    /\ final_whitelist[2] = [tier |-> "S", templateId |-> 4]
    /\ final_whitelist[3].tier = "B" /\ final_whitelist[4].tier = "B"

\* C40 as stated: for a purchase price above 0 and any current price and
\* yield the decision of the lease plugin equals that of the sell plugin.
C40_SameDecision ==
    (lease_decision # "none" /\ holding.buy_price > 0) =>
        lease_decision = sell_decision

\* C36 as stated: the breaker trips only when the two candidates attempted
\* last were both answered busy; a candidate in between that was not busy,
\* one whose lookup raised an exception included, sets busy_counter to 0.
C36_TwoBusyInARow ==
    busy_counter >= MAX_BUSY_COUNT =>
        /\ Len(attempts) >= MAX_BUSY_COUNT
        /\ \A k \in 0 .. MAX_BUSY_COUNT - 1 :
              attempts[Len(attempts) - k] = "busy"

\* C39: the price of every order handed to the platform is strictly below
\* the live lowest price fetched in the same pass of the loop.
C39_BelowLive ==
    SentOrder => last_order.price < last_order.lowest

\* C39, witness: an order at a stored price of 950 against a live price of
\* 1000, after the first candidate of the run was stopped by the checks.
C39_Witness ==
    /\ SentOrder /\ last_order.answer = "ok"
    /\ last_order.price = 950 /\ last_order.lowest = 1000
    /\ Len(attempts) >= 2 /\ attempts[1] = "gate"

\* C33 as stated: with a batch baseline of 30 leased units, an accepted
\* record with 60 units leased, a volatility of 0.10 and a 90-day change of
\* +2% is of tier S.
C33_ScenarioS ==
    \A i \in 1 .. Len(whitelist) :
        (/\ batch_lease_avg = 30
         /\ whitelist[i].lease_num = 60
         /\ whitelist[i].lease_volatility = 10
         /\ whitelist[i].sell_price_rate_90 = 2) => whitelist[i].tier = "S"

\* C38: an entry of tier C has an unknown volatility; an entry with a known
\* volatility is of tier S, A or B.
C38_KnownIsAboveC ==
    \A i \in 1 .. Len(whitelist) :
        /\ whitelist[i].tier \in Tiers
        /\ whitelist[i].tier = "C" => whitelist[i].volatility_unknown

\* C38, witness: an entry of tier B with a known volatility, outside an
\* uptrend, not stabilising after a fall, whose lease ratio is exactly 0.15.
C38_Witness ==
    /\ Len(whitelist) = 1
    /\ whitelist[1].tier = "B" /\ ~whitelist[1].volatility_unknown
    /\ ~whitelist[1].is_uptrend
    /\ whitelist[1].sell_price_rate_90 >= -20
    /\ whitelist[1].lease_num * 100 = MIN_LEASE_RATIO * whitelist[1].sell_num

\* C34 as stated: a record of bad quality (a price or count field that is
\* missing, not a number, zero or negative) only has that record rejected;
\* run_scan goes on to the records that remain.
C34_BadRecordSkipped ==
    (ev.op = "convert" /\ ev.ret = "raise") =>
        (pc = "loop" \/ (pc = "done" /\ idx = nItems))

\* C37 as stated: a record that passed the trend tests is not left behind
\* without a detail lookup, a record met in Cooldown included: the loop
\* moves past such a record only in a step that looked its details up.
C37_PassedIsLookedUp ==
    [][(pc = "loop" /\ ev'.op \in {"check_state", "lookup"}
          /\ (idx' = idx + 1 \/ pc' = "done"))
         => Len(lookups') = Len(lookups) + 1]_vars

\* C35: no step takes the state out of Bound, whatever the data requests
\* made after the bind are answered with; the state becomes Cooldown or
\* Invalid only in a check_state() call that made a bind attempt.
C35_BoundIsAbsorbing ==
    [][ /\ state = "BOUND" => state' = "BOUND"
        /\ (state' # state /\ state' \in {"COOLDOWN", "INVALID"}) =>
               /\ ev'.op = "check_state"
               /\ Len(ev'.path) >= 2
               /\ ev'.path[Len(ev'.path) - 1] = "BINDING" ]_vars

\* C35, witness: get_item_details, called in Bound, has been answered a 401
\* and then the business code 429, and the state is Bound.
C35_Witness ==
    /\ state = "BOUND" /\ ev.before = "BOUND"
    /\ ev.op = "detail" /\ ev.ans = "c429"
    /\ burst.kind = "detail" /\ burst.n401 >= 1

\* C32 as stated: the baseline the relative heat is computed from is the
\* arithmetic mean of the leased-count field over all records fetched for
\* the scan, so that a record whose leased count equals that mean has a
\* relative heat of exactly 1.0.
C32_BaselineIsBatchMean ==
    LET raw_list == list_steady \o list_heavy IN
    (fetched = 2 /\ raw_list # <<>>) =>
        lease_avg.sum * Len(raw_list) = lease_avg.n * SumSeq(raw_list)

====
